---- MODULE Spec2Model ----
(***************************************************************************)
(* State-machine model of the processing pipeline of ArchaeologicalMapper  *)
(* (src/js/app.js): the start-up connectivity probe, uploadImage, the      *)
(* standalone stages runSegmentation / detectArtifacts, runAllProcessing,  *)
(* generateCombinedStatistics and clearResults.                            *)
(*                                                                         *)
(* JavaScript runs one task at a time, so an action is the code that runs  *)
(* between two suspension points that wait for the outside world: a fetch  *)
(* settling, a response body being read, a FileReader load, a setTimeout   *)
(* firing.  An await of an already settled value only yields to the        *)
(* micro-task queue and is not a point where another handler can run.      *)
(*                                                                         *)
(* Time is counted in ticks of TickMs milliseconds.  A timer set with      *)
(* delay d fires after d/TickMs ticks; events inside one tick interleave   *)
(* freely.  Network requests and file reads take any amount of time.       *)
(*                                                                         *)
(* Rendering (Leaflet, the DOM panels) is assumed not to throw: the DOM    *)
(* elements exist and remote bodies carry numeric fields.                  *)
(***************************************************************************)
EXTENDS Integers, Sequences, FiniteSets, Bags, TLC

\* ------------------------------------------------------------------ bounds

\* Number of distinct files the user can pick (ids 1..MaxFiles).
MaxFiles == 1
\* Number of operations (uploadImage, runSegmentation, detectArtifacts,
\* runAllProcessing) accepted in one behaviour.
MaxOps == 3
\* Number of distinct Math.random() streams an offline stage may observe.
NumStreams == 2
\* The wall clock (in ticks) is not distinguished beyond this value.
MaxClock == 1

\* ------------------------------------------------------- program constants

\* Length of one tick in milliseconds: the greatest common divisor of the
\* delays used by the code (500, 1000, 1500).
TickMs == 500
UploadReleaseMs == 500
StageReleaseMs == 500
RunAllReleaseMs == 1000
UploadOfflineDelayMs == 1000
OfflineSegmentationDelayMs == 1500
OfflineDetectionDelayMs == 1500
RunAllStepDelayMs == 1000
RunAllAnalysisDelayMs == 500
RunAllFinalDelayMs == 1000
\* Math.random() is modelled as k / RandDen for k in 0..RandDen-1.
RandDen == 1024

Ticks(ms) == ms \div TickMs

\* -------------------------------------------------------------------- state

VARIABLES
    selectedFile,       \* this.selectedFile: 0 (null) or a file id
    currentImage,       \* this.currentImage: Null or an image record
    processingResults,  \* this.processingResults
    isOnline,           \* this.isOnline
    isProcessing,       \* this.isProcessing
    isUploading,        \* this.isUploading
    runningAllProcess,  \* this.runningAllProcess
    statusUI,           \* what updateBackendStatusUI last displayed
    toast,              \* the message the last step passed to showNotification ("" if none)
    probe,              \* position of checkBackendStatus
    probed,             \* how checkBackendStatus ended: "pending", "failed"
                        \* (its catch block ran) or "ok"
    procs,              \* bag of asynchronous operations in progress
    accepted,           \* number of operations accepted so far
    solo,               \* a runSegmentation accepted when nothing else was
                        \* running is the only operation accepted since
    alone,              \* how the runAllProcessing in progress was started,
                        \* while nothing else has been invoked since
    clock,              \* wall clock read by new Date(), in ticks
    imageOverlay        \* this.imageOverlay && this.imageBounds: an image is
                        \* displayed on the map

vars == <<selectedFile, currentImage, processingResults, isOnline, isProcessing,
          isUploading, runningAllProcess, statusUI, toast, probe, probed, procs,
          accepted,
          solo, alone, clock, imageOverlay>>

Null == [absent |-> TRUE]

Files == 1..MaxFiles

\* ------------------------------------------------------------ Math.random

\* The k-th value (numerator over RandDen) of random stream s.  Stream 0 is
\* constantly 0, stream 1 constantly the largest value below 1, the others
\* vary with k.
Rand(s, k) == (s * (RandDen - 1) + s * (s - 1) * k * 37) % RandDen

\* floor(Math.random() * scale + offset)
FloorScaled(r, scale, offset) == (r * scale) \div RandDen + offset

\* Number.toFixed: x/RandDen rounded to the nearest integer, half up.
RoundDiv(x, d) == (2 * x + d) \div (2 * d)

\* parseFloat((Math.random() * scale + offset).toFixed(digits)), expressed in
\* units of 10^-digits: scale and offset are given in those units.
FixedScaled(r, scale, offset) == RoundDiv(r * scale, RandDen) + offset

\* The values of Math.random() at which r * 0.3 + 0.7 is exactly half-way
\* between two thousandths and the double computed for it lies below that
\* point: 0.125, 0.625 and 0.875.  (At 0.375 the double is exactly 0.8125,
\* which toFixed rounds up; 0.3 and 0.7 are not exact in binary, the
\* factors and offsets of the percentages are.)
BelowTie(r) == 8 * r \in {RandDen, 5 * RandDen, 7 * RandDen}

\* parseFloat((Math.random() * 0.3 + 0.7).toFixed(3)) in thousandths, as the
\* double arithmetic computes it.
Confidence(r) ==
    IF BelowTie(r) THEN (r * 300) \div RandDen + 700
    ELSE FixedScaled(r, 300, 700)


\* ------------------------------------------------------------ result values

Percent(x) == x * 100

\* A generator whose water share is drawn from a range one percent wider.
OfflineSegmentationResultWetter(s) ==
    [ ruins_percentage      |-> FixedScaled(Rand(s, 0), Percent(40), Percent(20)),
      vegetation_percentage |-> FixedScaled(Rand(s, 1), Percent(30), Percent(10)),
      water_percentage      |-> FixedScaled(Rand(s, 2), Percent(6), Percent(1)),
      pixels_analyzed       |-> 1000000 + FloorScaled(Rand(s, 3), 500000, 0),
      success               |-> TRUE,
      synthetic             |-> TRUE ]

\* The object runOfflineSegmentation builds from four Math.random() calls
\* (percentages in hundredths of a percent).  synthetic stands for the fields
\* only the local generator sets (image_size '1920x1080', segmentation_url).
OfflineSegmentationResult(s) ==
    [ ruins_percentage      |-> FixedScaled(Rand(s, 0), Percent(40), Percent(20)),
      vegetation_percentage |-> FixedScaled(Rand(s, 1), Percent(30), Percent(10)),
      water_percentage      |-> FixedScaled(Rand(s, 2), Percent(5), Percent(1)),
      pixels_analyzed       |-> 1000000 + FloorScaled(Rand(s, 3), 500000, 0),
      success               |-> TRUE,
      synthetic             |-> TRUE ]

artifactTypes ==
    << "Pottery", "Tool", "Structure", "Ceramic", "Bone", "Stone Tool", "Vessel",
       "Ornament" >>

\* Math.random() calls made for one artifact: type, confidence, area, two
\* for center, four for bbox.
RandsPerArtifact == 9

\* The artifact pushed by iteration i (0-based) of runOfflineDetection's loop
\* (confidence in thousandths).
OfflineArtifact(s, i) ==
    LET b == 1 + RandsPerArtifact * i IN
    [ id         |-> i + 1,
      type       |-> artifactTypes[FloorScaled(Rand(s, b), Len(artifactTypes), 0) + 1],
      confidence |-> Confidence(Rand(s, b + 1)),
      area       |-> FloorScaled(Rand(s, b + 2), 2000, 500),
      center     |-> << FloorScaled(Rand(s, b + 3), 1000, 0),
                        FloorScaled(Rand(s, b + 4), 1000, 0) >>,
      bbox       |-> << FloorScaled(Rand(s, b + 5), 800, 0),
                        FloorScaled(Rand(s, b + 6), 800, 0),
                        FloorScaled(Rand(s, b + 7), 200, 50),
                        FloorScaled(Rand(s, b + 8), 200, 50) >> ]

\* The object runOfflineDetection builds.
OfflineDetectionResult(s) ==
    LET numArtifacts == FloorScaled(Rand(s, 0), 12, 3)
        artifacts == [i \in 1..numArtifacts |-> OfflineArtifact(s, i - 1)]
    IN  [ artifacts      |-> artifacts,
          total_detected |-> Len(artifacts),
          success        |-> TRUE,
          synthetic      |-> TRUE ]

\* A body the remote segment endpoint answers with when it succeeds.
RemoteSegmentationBody ==
    [ ruins_percentage      |-> 4550,
      vegetation_percentage |-> 2010,
      water_percentage      |-> 320,
      pixels_analyzed       |-> 2073600,
      success               |-> TRUE,
      synthetic             |-> FALSE ]

\* A body the remote detect endpoint answers with when it succeeds.
RemoteDetectionBody ==
    [ artifacts      |-> << [ id |-> 1, type |-> "Pottery", confidence |-> 910,
                              area |-> 1200, center |-> <<100, 200>>,
                              bbox |-> <<80, 180, 40, 40>> ],
                            [ id |-> 2, type |-> "Bone", confidence |-> 655,
                              area |-> 300, center |-> <<400, 50>>,
                              bbox |-> <<390, 40, 20, 20>> ] >>,
      total_detected |-> 2,
      success        |-> TRUE,
      synthetic      |-> FALSE ]

\* A body a remote endpoint answers with when it refuses the request.
RemoteRejectedBody == [success |-> FALSE, error |-> "failed"]

\* How a remote request can settle: the fetch rejects, the status is not ok,
\* the body cannot be read as JSON, the body says success false, or success.
FetchOutcomes == {"network_error", "http_error", "ok"}
BodyOutcomes == {"bad_json", "rejected", "success"}

\* --------------------------------------------------------------- processes

\* An asynchronous operation: kind is the method that started it, pc the
\* suspension point it waits at, t the ticks left on the timer it waits for
\* (NoTimer when it waits for the network or a file read).  The other fields
\* record what the operation captured when its current stage was dispatched:
\* online is the value of isOnline, file the file put in the upload form
\* (0 for a stage), img the image the stage was started for (Null for an
\* upload); failed tells whether a remote attempt of it has failed, writes
\* how many results it has stored so far (this.currentImage for an upload, a
\* slot of this.processingResults for the others).
Proc(kind, pc, t, online, file, img) ==
    [kind |-> kind, pc |-> pc, t |-> t, online |-> online, failed |-> FALSE,
     writes |-> 0, file |-> file, img |-> img]

\* The operation has stored one more result.
Wrote(p) == [p EXCEPT !.writes = p.writes + 1]

NoTimer == -1

Spawn(p) == procs (+) SetToBag({p})
Move(p, q) == (procs (-) SetToBag({p})) (+) SetToBag({q})
Retire(p) == procs (-) SetToBag({p})
Running == BagToSet(procs)
NumProcs == BagCardinality(procs)

\* Nothing is running and no release timer is pending.
Idle ==
    /\ procs = EmptyBag
    /\ ~isProcessing
    /\ ~isUploading
    /\ ~runningAllProcess

\* A timer-driven process is due when its countdown has reached zero.
Due(p, pc) == p.pc = pc /\ p.t = 0
Waiting(p, pc) == p.pc = pc /\ p.t = NoTimer

\* ----------------------------------------------------------------- initial

Init ==
    /\ selectedFile = 0
    /\ currentImage = Null
    /\ processingResults = [segmentation |-> Null, detection |-> Null,
                            statistics |-> Null]
    /\ isOnline = FALSE
    /\ isProcessing = FALSE
    /\ isUploading = FALSE
    /\ runningAllProcess = FALSE
    /\ statusUI = "unset"
    /\ toast = ""
    /\ probe = "fetch"
    /\ probed = "pending"
    /\ procs = EmptyBag
    /\ accepted = 0
    /\ solo = FALSE
    /\ alone = "no"
    /\ clock = 0
    /\ imageOverlay = FALSE

\* A display that is only refreshed when the backend is found.
updateBackendStatusUIConnectedOnly(isConnected) ==
    statusUI' = IF isConnected THEN "Online Mode" ELSE statusUI

\* updateBackendStatusUI(isConnected)
updateBackendStatusUI(isConnected) ==
    statusUI' = IF isConnected THEN "Online Mode" ELSE "Offline Mode"

\* showNotification(message, type)
showNotification(message) == toast' = message

\* The step shows no notification.
NoNotification == toast' = ""

\* ------------------------------------------------------ checkBackendStatus

\* An error that leaves checkBackendStatus without being handled.
ProbeUncaught ==
    /\ probe' = "done"
    /\ probed' = "failed"
    /\ NoNotification
    /\ UNCHANGED <<isOnline, statusUI>>

\* The catch block of checkBackendStatus.
ProbeOffline ==
    /\ isOnline' = FALSE
    /\ updateBackendStatusUI(FALSE)
    /\ showNotification("Running in offline mode. Basic features available.")
    /\ probe' = "done"
    /\ probed' = "failed"

\* The fetch of the status endpoint settles.
CheckBackendStatusFetched ==
    /\ probe = "fetch"
    /\ \E o \in FetchOutcomes :
          IF o = "ok"
          THEN /\ probe' = "json"
               /\ UNCHANGED <<isOnline, statusUI, probed>>
               /\ NoNotification
          ELSE ProbeOffline
    /\ UNCHANGED <<selectedFile, currentImage, processingResults, isProcessing,
                   isUploading, runningAllProcess, procs, clock, accepted,
                   solo, alone, imageOverlay>>

\* response.json() settles.
CheckBackendStatusParsed ==
    /\ probe = "json"
    /\ \E parsed \in BOOLEAN :
          IF parsed
          THEN /\ isOnline' = TRUE
               /\ updateBackendStatusUI(TRUE)
               /\ showNotification("Backend server connected successfully")
               /\ probe' = "done"
               /\ probed' = "ok"
          ELSE ProbeOffline
    /\ UNCHANGED <<selectedFile, currentImage, processingResults, isProcessing,
                   isUploading, runningAllProcess, procs, clock, accepted,
                   solo, alone, imageOverlay>>

\* ------------------------------------------------------------ file input

\* The change listener of the file input.
SelectFile ==
    /\ \E f \in Files : selectedFile' = f
    /\ showNotification("File selected")
    /\ UNCHANGED <<currentImage, processingResults, isOnline, isProcessing,
                   isUploading, runningAllProcess, statusUI, probe, probed, procs,
                   clock, accepted, solo, alone, imageOverlay>>

\* ------------------------------------------------------------- uploadImage

\* this.currentImage as uploadToBackend sets it from a successful response
\* to the upload of file f: filename is the name the server stored the file
\* under (0 when the body carries none).
ServerImage(f, filename) ==
    [original_name |-> f, filename |-> filename, server_data |-> TRUE]

\* this.currentImage as uploadOffline sets it from this.selectedFile.
LocalImage(f) ==
    [original_name |-> f, filename |-> f, server_data |-> FALSE]

\* The finally block of uploadImage: setTimeout(..., 500).
UploadFinally(p) == [p EXCEPT !.pc = "up_release", !.t = Ticks(UploadReleaseMs)]

\* The catch block of uploadImage up to the delay inside uploadOffline.
UploadCatch(p) ==
    /\ showNotification("Upload failed, using offline mode")
    /\ isOnline' = FALSE
    /\ updateBackendStatusUI(FALSE)
    /\ procs' = Move(p, [p EXCEPT !.pc = "up_delay",
                                   !.t = Ticks(UploadOfflineDelayMs),
                                   !.failed = TRUE])

\* A busy check that lets an upload through while the general flag is set.
UploadBusyUnlessProcessing == isUploading /\ ~isProcessing

\* The busy check of uploadImage: this.isUploading
UploadBusy == isUploading

\* uploadImage() up to its first suspension point.
UploadImage ==
    IF selectedFile = 0
    THEN /\ showNotification("Please select an image file first")
         /\ UNCHANGED <<selectedFile, currentImage, processingResults, isOnline,
                        isProcessing, isUploading, runningAllProcess, statusUI,
                        probe, probed, procs, clock, accepted, solo, alone,
                        imageOverlay>>
    ELSE IF UploadBusy
    THEN /\ showNotification("Upload already in progress")
         /\ UNCHANGED <<selectedFile, currentImage, processingResults, isOnline,
                        isProcessing, isUploading, runningAllProcess, statusUI,
                        probe, probed, procs, clock, accepted, solo, alone,
                        imageOverlay>>
    ELSE /\ accepted < MaxOps
         /\ accepted' = accepted + 1
         /\ solo' = FALSE
         /\ alone' = "no"
         /\ isUploading' = TRUE
         /\ isProcessing' = TRUE
         /\ procs' = Spawn(IF isOnline
                           THEN Proc("upload", "up_fetch", NoTimer, isOnline,
                                     selectedFile, Null)
                           ELSE Proc("upload", "up_delay",
                                     Ticks(UploadOfflineDelayMs), isOnline,
                                     selectedFile, Null))
         /\ UNCHANGED <<selectedFile, currentImage, processingResults, isOnline,
                        runningAllProcess, statusUI, probe, probed, clock,
                        imageOverlay>>
         /\ NoNotification

\* uploadToBackend: the fetch of the upload endpoint settles.
UploadFetched ==
    \E p \in Running :
       /\ Waiting(p, "up_fetch")
       /\ \E o \in FetchOutcomes :
             IF o = "ok"
             THEN /\ procs' = Move(p, [p EXCEPT !.pc = "up_json"])
                  /\ UNCHANGED <<isOnline, statusUI>>
                  /\ NoNotification
             ELSE UploadCatch(p)
       /\ UNCHANGED <<selectedFile, currentImage, processingResults, isProcessing,
                      isUploading, runningAllProcess, probe, probed, clock, accepted,
                      solo, alone, imageOverlay>>

\* displayImage(imgUrl): puts the image overlay on the map and stores its
\* bounds.
displayImage == imageOverlay' = TRUE

\* uploadToBackend: response.json() settles.
UploadParsed ==
    \E p \in Running :
       /\ Waiting(p, "up_json")
       /\ \E o \in BodyOutcomes :
             IF o = "success"
             THEN /\ \E filename \in {0, p.file} :
                        currentImage' = ServerImage(p.file, filename)
                  /\ showNotification("Image uploaded successfully to server")
                  /\ displayImage
                  /\ procs' = Move(p, UploadFinally(Wrote(p)))
                  /\ UNCHANGED <<isOnline, statusUI>>
             ELSE /\ UploadCatch(p)
                  /\ UNCHANGED <<currentImage, imageOverlay>>
       /\ UNCHANGED <<selectedFile, processingResults, isProcessing, isUploading,
                      runningAllProcess, probe, probed, clock, accepted, solo, alone>>

\* uploadOffline: delay(1000) has elapsed; the FileReader is started.
UploadOfflineDelayed ==
    \E p \in Running :
       /\ Due(p, "up_delay")
       /\ currentImage' = LocalImage(selectedFile)
       /\ showNotification("Image loaded for offline processing")
       /\ procs' = Move(p, Wrote([p EXCEPT !.pc = "up_read", !.t = NoTimer]))
       /\ UNCHANGED <<selectedFile, processingResults, isOnline, isProcessing,
                      isUploading, runningAllProcess, statusUI, probe, probed, clock,
                      accepted, solo, alone, imageOverlay>>

\* displayLocalImage: the FileReader settles.  Only onload is handled: after
\* a read error the promise never resolves and uploadImage never resumes.
UploadFileRead ==
    \E p \in Running :
       /\ Waiting(p, "up_read")
       /\ \E loaded \in BOOLEAN :
             IF loaded
             THEN /\ displayImage
                  /\ procs' = Move(p, UploadFinally(p))
             ELSE /\ procs' = Move(p, [p EXCEPT !.pc = "up_hung"])
                  /\ UNCHANGED imageOverlay
       /\ UNCHANGED <<selectedFile, currentImage, processingResults, isOnline,
                      isProcessing, isUploading, runningAllProcess, statusUI,
                      probe, probed, clock, accepted, solo, alone>>
       /\ NoNotification

\* The setTimeout callback of uploadImage's finally block.
UploadRelease ==
    \E p \in Running :
       /\ Due(p, "up_release")
       /\ isProcessing' = FALSE
       /\ isUploading' = FALSE
       /\ procs' = Retire(p)
       /\ UNCHANGED <<selectedFile, currentImage, processingResults, isOnline,
                      runningAllProcess, statusUI, probe, probed, clock, accepted,
                      solo, alone, imageOverlay>>
       /\ NoNotification

\* ------------------------------------- runSegmentation / detectArtifacts

Streams == 0..(NumStreams - 1)

\* The two stages differ only in the names below; "seg" is runSegmentation
\* with runBackendSegmentation / runOfflineSegmentation, "det" is
\* detectArtifacts with runBackendDetection / runOfflineDetection.
Slot(stage) == IF stage = "seg" THEN "segmentation" ELSE "detection"
OfflineResult(stage, s) ==
    IF stage = "seg" THEN OfflineSegmentationResult(s) ELSE OfflineDetectionResult(s)
RemoteBody(stage) ==
    IF stage = "seg" THEN RemoteSegmentationBody ELSE RemoteDetectionBody
OfflineDelayMs(stage) ==
    IF stage = "seg" THEN OfflineSegmentationDelayMs ELSE OfflineDetectionDelayMs
FailedToast(stage) ==
    IF stage = "seg" THEN "Segmentation failed, trying offline mode"
    ELSE "Detection failed, trying offline mode"

\* A choice of implementation that does not look at the mode.
UseRemoteAnyMode(online, img) == img.filename # 0

\* The choice between the backend and the offline implementation of a stage:
\* this.isOnline && this.currentImage.filename
UseRemote(online, img) == online /\ img.filename # 0

\* A busy check that exempts every call outside runAllProcessing.
StageBusyInRunAll == isProcessing /\ runningAllProcess

\* The busy check of a standalone stage:
\* this.isProcessing && !this.runningAllProcess
StageBusy == isProcessing /\ ~runningAllProcess

\* The parsed body of a stage's response (for a body that could be parsed).
ParsedBody(stage, o) ==
    IF o = "success" THEN RemoteBody(stage) ELSE RemoteRejectedBody

\* A test that lets every parsed body through.
AcceptsAny(o, result) == o # "bad_json"

\* runBackend<Stage> stores a body only if it could be parsed and passes
\* if (result.success)
Accepts(o, result) == o # "bad_json" /\ result.success

\* this.processingResults.<slot> = result
StoreResult(slot, result) ==
    processingResults' = [processingResults EXCEPT ![slot] = result]

\* The notification runBackend<Stage> shows after storing its result.
RemoteToast(stage) ==
    IF stage = "seg" THEN showNotification("Segmentation complete")
    ELSE IF ~runningAllProcess THEN showNotification("Found artifacts")
    ELSE NoNotification

\* The notification runOffline<Stage> shows after storing its result.
OfflineToast(stage) ==
    IF runningAllProcess THEN NoNotification
    ELSE IF stage = "seg"
    THEN showNotification("Site features segmented (offline mode)")
    ELSE showNotification("Found artifacts (offline mode)")

\* The finally block of a standalone stage: setTimeout(..., 500).
StageFinally(p) == [p EXCEPT !.pc = "release", !.t = Ticks(StageReleaseMs)]

\* A catch block that switches the mode back on when it finds it off.
StageCatchUpgrading(p) ==
    /\ showNotification(FailedToast(p.kind))
    /\ IF isOnline
       THEN /\ isOnline' = FALSE
            /\ updateBackendStatusUI(FALSE)
            /\ procs' = Move(p, [p EXCEPT !.pc = "delay",
                                          !.t = Ticks(OfflineDelayMs(p.kind)),
                                          !.failed = TRUE])
       ELSE /\ procs' = Move(p, StageFinally([p EXCEPT !.failed = TRUE]))
            /\ isOnline' = TRUE
            /\ updateBackendStatusUI(TRUE)

\* The catch block of a standalone stage, up to the delay inside the offline
\* implementation when it falls back.
StageCatch(p) ==
    /\ showNotification(FailedToast(p.kind))
    /\ IF isOnline
       THEN /\ isOnline' = FALSE
            /\ updateBackendStatusUI(FALSE)
            /\ procs' = Move(p, [p EXCEPT !.pc = "delay",
                                          !.t = Ticks(OfflineDelayMs(p.kind)),
                                          !.failed = TRUE])
       ELSE /\ procs' = Move(p, StageFinally([p EXCEPT !.failed = TRUE]))
            /\ UNCHANGED <<isOnline, statusUI>>

\* runSegmentation() / detectArtifacts() up to the first suspension point.
RunStage(stage) ==
    IF currentImage = Null
    THEN /\ showNotification("Please upload an image first")
         /\ UNCHANGED <<selectedFile, currentImage, processingResults, isOnline,
                        isProcessing, isUploading, runningAllProcess, statusUI,
                        probe, probed, procs, clock, accepted, solo, alone,
                        imageOverlay>>
    ELSE IF StageBusy
    THEN /\ showNotification("Another process is currently running")
         /\ UNCHANGED <<selectedFile, currentImage, processingResults, isOnline,
                        isProcessing, isUploading, runningAllProcess, statusUI,
                        probe, probed, procs, clock, accepted, solo, alone,
                        imageOverlay>>
    ELSE /\ accepted < MaxOps
         /\ accepted' = accepted + 1
         /\ solo' = (stage = "seg" /\ Idle)
         /\ alone' = "no"
         /\ isProcessing' = IF ~runningAllProcess THEN TRUE ELSE isProcessing
         /\ procs' = Spawn(IF UseRemote(isOnline, currentImage)
                           THEN Proc(stage, "fetch", NoTimer, isOnline, 0,
                                     currentImage)
                           ELSE Proc(stage, "delay", Ticks(OfflineDelayMs(stage)),
                                     isOnline, 0, currentImage))
         /\ UNCHANGED <<selectedFile, currentImage, processingResults, isOnline,
                        isUploading, runningAllProcess, statusUI, probe, probed, clock,
                        imageOverlay>>
         /\ NoNotification

\* runBackend<Stage>: the fetch of the stage's endpoint settles.
StageFetched(stage) ==
    \E p \in Running :
       /\ p.kind = stage
       /\ Waiting(p, "fetch")
       /\ \E o \in FetchOutcomes :
             IF o = "ok"
             THEN /\ procs' = Move(p, [p EXCEPT !.pc = "json"])
                  /\ UNCHANGED <<isOnline, statusUI>>
                  /\ NoNotification
             ELSE StageCatch(p)
       /\ UNCHANGED <<selectedFile, currentImage, processingResults, isProcessing,
                      isUploading, runningAllProcess, probe, probed, clock, accepted,
                      solo, alone, imageOverlay>>

\* runBackend<Stage>: response.json() settles.
StageParsed(stage) ==
    \E p \in Running :
       /\ p.kind = stage
       /\ Waiting(p, "json")
       /\ \E o \in BodyOutcomes :
             IF Accepts(o, ParsedBody(stage, o))
             THEN /\ StoreResult(Slot(stage), ParsedBody(stage, o))
                  /\ RemoteToast(stage)
                  /\ procs' = Move(p, StageFinally(Wrote(p)))
                  /\ UNCHANGED <<isOnline, statusUI>>
             ELSE /\ StageCatch(p)
                  /\ UNCHANGED processingResults
       /\ UNCHANGED <<selectedFile, currentImage, isProcessing, isUploading,
                      runningAllProcess, probe, probed, clock, accepted, solo, alone,
                      imageOverlay>>

\* runOffline<Stage>: its delay(1500) has elapsed.
StageOfflineDone(stage) ==
    \E p \in Running :
       /\ p.kind = stage
       /\ Due(p, "delay")
       /\ \E s \in Streams : StoreResult(Slot(stage), OfflineResult(stage, s))
       /\ OfflineToast(stage)
       /\ procs' = Move(p, StageFinally(Wrote(p)))
       /\ UNCHANGED <<selectedFile, currentImage, isOnline, isProcessing,
                      isUploading, runningAllProcess, statusUI, probe, probed, clock,
                      accepted, solo, alone, imageOverlay>>

\* The setTimeout callback of a standalone stage's finally block.
StageRelease(stage) ==
    \E p \in Running :
       /\ p.kind = stage
       /\ Due(p, "release")
       /\ isProcessing' = IF ~runningAllProcess THEN FALSE ELSE isProcessing
       /\ procs' = Retire(p)
       /\ solo' = FALSE
       /\ UNCHANGED <<selectedFile, currentImage, processingResults, isOnline,
                      isUploading, runningAllProcess, statusUI, probe, probed, clock,
                      accepted, alone, imageOverlay>>
       /\ NoNotification

RunSegmentation == RunStage("seg")
SegmentationFetched == StageFetched("seg")
SegmentationParsed == StageParsed("seg")
OfflineSegmentationDone == StageOfflineDone("seg")
SegmentationRelease == StageRelease("seg")

DetectArtifacts == RunStage("det")
DetectionFetched == StageFetched("det")
DetectionParsed == StageParsed("det")
OfflineDetectionDone == StageOfflineDone("det")
DetectionRelease == StageRelease("det")

\* ----------------------------------------------- generateCombinedStatistics

\* A default of one for a missing result.
OrOne(result, field) == IF result = Null THEN 1 ELSE result[field]

\* A value the || operator treats as false (the fields are numbers).
Falsy(value) == value = 0

\* seg?.field || 0: undefined when the result is missing, and 0 in place of
\* undefined or of any other falsy value of the field.
OrZero(result, field) ==
    IF result = Null THEN 0
    ELSE IF Falsy(result[field]) THEN 0 ELSE result[field]

\* The object generateCombinedStatistics stores, from the two result slots,
\* this.currentImage, this.isOnline and new Date().  image_name 0 stands for
\* 'Unknown'; summary holds the two values interpolated into the text.
generateCombinedStatistics(seg, det, img, online, now) ==
    [ timestamp           |-> now,
      image_name          |-> IF img = Null THEN 0 ELSE img.original_name,
      ruins_coverage      |-> OrZero(seg, "ruins_percentage"),
      vegetation_coverage |-> OrZero(seg, "vegetation_percentage"),
      water_coverage      |-> OrZero(seg, "water_percentage"),
      artifact_count      |-> OrZero(det, "total_detected"),
      processing_mode     |-> IF online THEN "Online" ELSE "Offline",
      summary             |-> << OrZero(seg, "ruins_percentage"),
                                 OrZero(det, "total_detected") >> ]

\* -------------------------------------------------------- runAllProcessing

\* A busy check that only looks for an upload.
RunAllBusyUploadOnly == isUploading

\* The busy check of runAllProcessing: this.isProcessing
RunAllBusy == isProcessing

FetchPc(stage) == IF stage = "seg" THEN "seg_fetch" ELSE "det_fetch"
JsonPc(stage) == IF stage = "seg" THEN "seg_json" ELSE "det_json"
DelayPc(stage) == IF stage = "seg" THEN "seg_delay" ELSE "det_delay"

\* The step of runAllProcessing that runs a stage: the backend or the offline
\* implementation is chosen when the step is reached.
RunAllDispatch(p, stage) ==
    IF UseRemote(isOnline, currentImage)
    THEN [p EXCEPT !.pc = FetchPc(stage), !.t = NoTimer, !.online = isOnline,
                   !.img = currentImage]
    ELSE [p EXCEPT !.pc = DelayPc(stage), !.t = Ticks(OfflineDelayMs(stage)),
                   !.online = isOnline, !.img = currentImage]

\* A sequence that goes from segmentation straight to the final analysis.
RunAllAfterStageSkipping(p, stage) ==
    [p EXCEPT !.pc = "wait2", !.t = Ticks(RunAllAnalysisDelayMs)]

\* What runAllProcessing awaits after a stage has returned: delay(1000) after
\* segmentation, delay(500) after detection.
RunAllAfterStage(p, stage) ==
    IF stage = "seg"
    THEN [p EXCEPT !.pc = "wait1", !.t = Ticks(RunAllStepDelayMs)]
    ELSE [p EXCEPT !.pc = "wait2", !.t = Ticks(RunAllAnalysisDelayMs)]

\* The finally block of runAllProcessing: setTimeout(..., 1000).
RunAllFinally(p) == [p EXCEPT !.pc = "release", !.t = Ticks(RunAllReleaseMs)]

\* A catch block after which the run goes on to the final analysis.
RunAllCatchContinuing(p) ==
    /\ showNotification("Processing failed")
    /\ procs' = Move(p, [p EXCEPT !.failed = TRUE, !.pc = "wait2",
                                  !.t = Ticks(RunAllAnalysisDelayMs)])

\* The catch block of runAllProcessing.
RunAllCatch(p) ==
    /\ showNotification("Processing failed")
    /\ procs' = Move(p, RunAllFinally([p EXCEPT !.failed = TRUE]))

\* How a runAllProcessing accepted now is started: "no" in Online mode,
\* "quiet" in Offline mode after the start-up probe has finished and with
\* nothing else in progress, "offline" in Offline mode otherwise.
StartedAs ==
    IF isOnline THEN "no"
    ELSE IF probe = "done" /\ procs = EmptyBag /\ ~isUploading THEN "quiet"
    ELSE "offline"

\* runAllProcessing() up to the first suspension point.
RunAllProcessing ==
    IF currentImage = Null
    THEN /\ showNotification("Please upload an image first")
         /\ UNCHANGED <<selectedFile, currentImage, processingResults, isOnline,
                        isProcessing, isUploading, runningAllProcess, statusUI,
                        probe, probed, procs, clock, accepted, solo, alone,
                        imageOverlay>>
    ELSE IF RunAllBusy
    THEN /\ showNotification("Another process is currently running")
         /\ UNCHANGED <<selectedFile, currentImage, processingResults, isOnline,
                        isProcessing, isUploading, runningAllProcess, statusUI,
                        probe, probed, procs, clock, accepted, solo, alone,
                        imageOverlay>>
    ELSE /\ accepted < MaxOps
         /\ accepted' = accepted + 1
         /\ solo' = FALSE
         /\ alone' = StartedAs
         /\ isProcessing' = TRUE
         /\ runningAllProcess' = TRUE
         /\ procs' = Spawn(RunAllDispatch(Proc("all", "start", NoTimer, isOnline, 0,
                                               currentImage), "seg"))
         /\ UNCHANGED <<selectedFile, currentImage, processingResults, isOnline,
                        isUploading, statusUI, probe, probed, clock,
                        imageOverlay>>
         /\ NoNotification

\* A step's fetch settles.
RunAllFetched(stage) ==
    \E p \in Running :
       /\ p.kind = "all"
       /\ Waiting(p, FetchPc(stage))
       /\ \E o \in FetchOutcomes :
             IF o = "ok"
             THEN /\ procs' = Move(p, [p EXCEPT !.pc = JsonPc(stage)])
                  /\ NoNotification
             ELSE RunAllCatch(p)
       /\ UNCHANGED <<selectedFile, currentImage, processingResults, isOnline,
                      isProcessing, isUploading, runningAllProcess, statusUI,
                      probe, probed, clock, accepted, solo, alone,
                      imageOverlay>>

\* A step's response.json() settles.
RunAllParsed(stage) ==
    \E p \in Running :
       /\ p.kind = "all"
       /\ Waiting(p, JsonPc(stage))
       /\ \E o \in BodyOutcomes :
             IF Accepts(o, ParsedBody(stage, o))
             THEN /\ StoreResult(Slot(stage), ParsedBody(stage, o))
                  /\ RemoteToast(stage)
                  /\ procs' = Move(p, RunAllAfterStage(Wrote(p), stage))
             ELSE /\ RunAllCatch(p)
                  /\ UNCHANGED processingResults
       /\ UNCHANGED <<selectedFile, currentImage, isOnline, isProcessing,
                      isUploading, runningAllProcess, statusUI, probe, probed, clock,
                      accepted, solo, alone, imageOverlay>>

\* A step's offline implementation finishes its delay(1500).
RunAllOfflineDone(stage) ==
    \E p \in Running :
       /\ p.kind = "all"
       /\ Due(p, DelayPc(stage))
       /\ \E s \in Streams : StoreResult(Slot(stage), OfflineResult(stage, s))
       /\ OfflineToast(stage)
       /\ procs' = Move(p, RunAllAfterStage(Wrote(p), stage))
       /\ UNCHANGED <<selectedFile, currentImage, isOnline, isProcessing,
                      isUploading, runningAllProcess, statusUI, probe, probed, clock,
                      accepted, solo, alone, imageOverlay>>

\* Step 2 is reached: the delay(1000) between the steps has elapsed.
RunAllDetectionStart ==
    \E p \in Running :
       /\ p.kind = "all"
       /\ Due(p, "wait1")
       /\ procs' = Move(p, RunAllDispatch(p, "det"))
       /\ UNCHANGED <<selectedFile, currentImage, processingResults, isOnline,
                      isProcessing, isUploading, runningAllProcess, statusUI,
                      probe, probed, clock, accepted, solo, alone,
                      imageOverlay>>
       /\ NoNotification

\* Step 3: the delay(500) has elapsed, generateCombinedStatistics runs.
RunAllGenerateStatistics ==
    \E p \in Running :
       /\ p.kind = "all"
       /\ Due(p, "wait2")
       /\ StoreResult("statistics",
                      generateCombinedStatistics(processingResults.segmentation,
                                                 processingResults.detection,
                                                 currentImage, isOnline, clock))
       /\ procs' = Move(p, Wrote([p EXCEPT !.pc = "wait3",
                                         !.t = Ticks(RunAllFinalDelayMs)]))
       /\ UNCHANGED <<selectedFile, currentImage, isOnline, isProcessing,
                      isUploading, runningAllProcess, statusUI, probe, probed, clock,
                      accepted, solo, alone, imageOverlay>>
       /\ NoNotification

\* The last delay(1000) has elapsed: the run reports success and leaves.
RunAllCompleted ==
    \E p \in Running :
       /\ p.kind = "all"
       /\ Due(p, "wait3")
       /\ showNotification("All processing completed successfully!")
       /\ procs' = Move(p, RunAllFinally(p))
       /\ UNCHANGED <<selectedFile, currentImage, processingResults, isOnline,
                      isProcessing, isUploading, runningAllProcess, statusUI,
                      probe, probed, clock, accepted, solo, alone,
                      imageOverlay>>

\* The setTimeout callback of runAllProcessing's finally block.
RunAllRelease ==
    \E p \in Running :
       /\ p.kind = "all"
       /\ Due(p, "release")
       /\ isProcessing' = FALSE
       /\ runningAllProcess' = FALSE
       /\ procs' = Retire(p)
       /\ alone' = "no"
       /\ UNCHANGED <<selectedFile, currentImage, processingResults, isOnline,
                      isUploading, statusUI, probe, probed, clock, accepted, solo,
                      imageOverlay>>
       /\ NoNotification

RunAllSegmentationFetched == RunAllFetched("seg")
RunAllSegmentationParsed == RunAllParsed("seg")
RunAllOfflineSegmentationDone == RunAllOfflineDone("seg")
RunAllDetectionFetched == RunAllFetched("det")
RunAllDetectionParsed == RunAllParsed("det")
RunAllOfflineDetectionDone == RunAllOfflineDone("det")

\* ------------------------------------------------------------ clearResults

\* A reset that forgets the statistics slot.
clearResultsKeepingStatistics ==
    /\ processingResults' = [processingResults EXCEPT !.segmentation = Null,
                                                      !.detection = Null]
    /\ showNotification("All results cleared")
    /\ alone' = "no"
    /\ UNCHANGED <<selectedFile, currentImage, isOnline, isProcessing, isUploading,
                   runningAllProcess, statusUI, probe, probed, procs, clock,
                   accepted, solo, imageOverlay>>

\* A reset that also forgets the image.
clearResultsAndImage ==
    /\ processingResults' = [segmentation |-> Null, detection |-> Null,
                             statistics |-> Null]
    /\ currentImage' = Null
    /\ showNotification("All results cleared")
    /\ alone' = "no"
    /\ UNCHANGED <<selectedFile, isOnline, isProcessing, isUploading,
                   runningAllProcess, statusUI, probe, probed, procs, clock,
                   accepted, solo, imageOverlay>>

\* clearResults()
clearResults ==
    /\ processingResults' = [segmentation |-> Null, detection |-> Null,
                             statistics |-> Null]
    /\ showNotification("All results cleared")
    /\ alone' = "no"
    /\ UNCHANGED <<selectedFile, currentImage, isOnline, isProcessing, isUploading,
                   runningAllProcess, statusUI, probe, probed, procs, clock, accepted,
                   solo, imageOverlay>>

\* ------------------------------------------- map and export controls

\* A handler that only shows a notification.
Notify(message) ==
    /\ showNotification(message)
    /\ UNCHANGED <<selectedFile, currentImage, processingResults, isOnline,
                   isProcessing, isUploading, runningAllProcess, statusUI,
                   probe, probed, procs, clock, accepted, solo, alone,
                   imageOverlay>>

\* fitToBounds(), the click listener of the fit-bounds button.
FitToBounds ==
    Notify(IF imageOverlay THEN "Map fitted to image bounds"
           ELSE "No image loaded")

\* The click listeners of the three export buttons and of the download
\* button of the report dialog.
ExportGeoJSON == Notify("Exporting GeoJSON data...")
ExportCSV == Notify("Exporting CSV report...")
ExportPDF == Notify("Generating PDF report...")
DownloadReport == Notify("Downloading report...")

\* --------------------------------------------------------------------- time

Elapse(p) == IF p.t > 0 THEN [p EXCEPT !.t = p.t - 1] ELSE p

\* TickMs milliseconds pass.  A timer that is due fires before time moves on.
Tick ==
    /\ \A p \in Running : p.t # 0
    /\ procs' = [q \in {Elapse(p) : p \in Running} |->
                    procs[CHOOSE p \in Running : Elapse(p) = q]]
    /\ clock' = IF clock < MaxClock THEN clock + 1 ELSE clock
    /\ UNCHANGED <<selectedFile, currentImage, processingResults, isOnline,
                   isProcessing, isUploading, runningAllProcess, statusUI,
                   probe, probed, accepted, solo, alone, imageOverlay>>
    /\ NoNotification

\* ------------------------------------------------------------ specification

Next ==
    \/ CheckBackendStatusFetched
    \/ CheckBackendStatusParsed
    \/ SelectFile
    \/ UploadImage
    \/ UploadFetched
    \/ UploadParsed
    \/ UploadOfflineDelayed
    \/ UploadFileRead
    \/ UploadRelease
    \/ RunSegmentation
    \/ SegmentationFetched
    \/ SegmentationParsed
    \/ OfflineSegmentationDone
    \/ SegmentationRelease
    \/ DetectArtifacts
    \/ DetectionFetched
    \/ DetectionParsed
    \/ OfflineDetectionDone
    \/ DetectionRelease
    \/ RunAllProcessing
    \/ RunAllSegmentationFetched
    \/ RunAllSegmentationParsed
    \/ RunAllOfflineSegmentationDone
    \/ RunAllDetectionStart
    \/ RunAllDetectionFetched
    \/ RunAllDetectionParsed
    \/ RunAllOfflineDetectionDone
    \/ RunAllGenerateStatistics
    \/ RunAllCompleted
    \/ RunAllRelease
    \/ clearResults
    \/ FitToBounds
    \/ ExportGeoJSON
    \/ ExportCSV
    \/ ExportPDF
    \/ DownloadReport
    \/ Tick

Spec == Init /\ [][Next]_vars

\* The steps the environment and the event loop take on their own: a request
\* or a file read settles, a timer fires.
Settle ==
    \/ CheckBackendStatusFetched
    \/ CheckBackendStatusParsed
    \/ UploadFetched
    \/ UploadParsed
    \/ UploadOfflineDelayed
    \/ UploadFileRead
    \/ UploadRelease
    \/ SegmentationFetched
    \/ SegmentationParsed
    \/ OfflineSegmentationDone
    \/ SegmentationRelease
    \/ DetectionFetched
    \/ DetectionParsed
    \/ OfflineDetectionDone
    \/ DetectionRelease
    \/ RunAllSegmentationFetched
    \/ RunAllSegmentationParsed
    \/ RunAllOfflineSegmentationDone
    \/ RunAllDetectionStart
    \/ RunAllDetectionFetched
    \/ RunAllDetectionParsed
    \/ RunAllOfflineDetectionDone
    \/ RunAllGenerateStatistics
    \/ RunAllCompleted
    \/ RunAllRelease

\* Every request, file read and timer eventually settles: time keeps passing
\* and, as long as something is outstanding, one of the outstanding things
\* is eventually dealt with.
SpecLive == Spec /\ WF_vars(Settle) /\ WF_vars(Tick)

\* --------------------------------------- generateCombinedStatistics alone

\* Values this.currentImage and the result slots can hold.
Images ==
    UNION {{ServerImage(f, f), ServerImage(f, 0), LocalImage(f)} : f \in Files}
SegmentationResults ==
    {RemoteSegmentationBody} \cup {OfflineSegmentationResult(s) : s \in Streams}
DetectionResults ==
    {RemoteDetectionBody} \cup {OfflineDetectionResult(s) : s \in Streams}

\* The result came from a remote endpoint.
IsRemote(result) == result # Null /\ ~result.synthetic

\* The states generateCombinedStatistics can be called in when nothing is
\* running: results exist only for an uploaded image, an image only after a
\* file was selected (another one may have been selected since); a server
\* image, a remote result and the Online mode only after the start-up probe
\* found the backend; the mode is downgraded after that only by an operation
\* that needs or loads an image.  The statistics slot, which the call
\* overwrites without reading it, is empty, and time is counted from here.
InitCombine ==
    /\ currentImage \in {Null} \cup Images
    /\ selectedFile \in (IF currentImage = Null THEN {0} ELSE {}) \cup Files
    /\ imageOverlay = (currentImage # Null)
    /\ \E seg \in {Null} \cup SegmentationResults,
          det \in {Null} \cup DetectionResults :
          /\ currentImage = Null => (seg = Null /\ det = Null)
          /\ processingResults = [segmentation |-> seg, detection |-> det,
                                  statistics |-> Null]
    /\ isOnline \in BOOLEAN
    /\ statusUI = IF isOnline THEN "Online Mode" ELSE "Offline Mode"
    /\ isProcessing = FALSE
    /\ isUploading = FALSE
    /\ runningAllProcess = FALSE
    /\ toast = ""
    /\ probe = "done"
    /\ probed \in {"ok", "failed"}
    /\ probed = "failed" =>
          /\ ~isOnline
          /\ currentImage # Null => ~currentImage.server_data
          /\ ~IsRemote(processingResults.segmentation)
          /\ ~IsRemote(processingResults.detection)
    /\ (probed = "ok" /\ currentImage = Null) => isOnline
    /\ procs = EmptyBag
    /\ accepted = 0
    /\ solo = FALSE
    /\ alone = "no"
    /\ clock = 0

\* A direct call of generateCombinedStatistics().
CallGenerateCombinedStatistics ==
    /\ accepted < MaxOps
    /\ accepted' = accepted + 1
    /\ StoreResult("statistics",
                   generateCombinedStatistics(processingResults.segmentation,
                                              processingResults.detection,
                                              currentImage, isOnline, clock))
    /\ NoNotification
    /\ UNCHANGED <<selectedFile, currentImage, isOnline, isProcessing, isUploading,
                   runningAllProcess, statusUI, probe, probed, procs, solo, alone, clock,
                   imageOverlay>>

\* The wall clock moves on between two calls.
ClockAdvance ==
    /\ clock < MaxClock
    /\ clock' = clock + 1
    /\ NoNotification
    /\ UNCHANGED <<selectedFile, currentImage, processingResults, isOnline,
                   isProcessing, isUploading, runningAllProcess, statusUI, probe, probed,
                   procs, accepted, solo, alone, imageOverlay>>

NextCombine ==
    \/ CallGenerateCombinedStatistics
    \/ ClockAdvance

SpecCombine == InitCombine /\ [][NextCombine]_vars

\* ------------------------------------------------ the offline generators

\* Number of Math.random() streams the generators are run on by themselves.
MaxSyntheticStreams == 32
SyntheticStreams == 0..(MaxSyntheticStreams - 1)

\* An image has been loaded in Offline mode and nothing is running.
InitSynthetic ==
    /\ selectedFile \in Files
    /\ currentImage = LocalImage(selectedFile)
    /\ processingResults = [segmentation |-> Null, detection |-> Null,
                            statistics |-> Null]
    /\ isOnline = FALSE
    /\ statusUI = "Offline Mode"
    /\ isProcessing = FALSE
    /\ isUploading = FALSE
    /\ runningAllProcess = FALSE
    /\ toast = ""
    /\ probe = "done"
    /\ probed = "failed"
    /\ procs = EmptyBag
    /\ accepted = 0
    /\ solo = FALSE
    /\ alone = "no"
    /\ clock = 0
    /\ imageOverlay = TRUE

\* The body of runOfflineSegmentation / runOfflineDetection after its delay,
\* on any of the streams.
GenerateOffline(stage) ==
    /\ \E s \in SyntheticStreams : StoreResult(Slot(stage), OfflineResult(stage, s))
    /\ OfflineToast(stage)
    /\ UNCHANGED <<selectedFile, currentImage, isOnline, isProcessing, isUploading,
                   runningAllProcess, statusUI, probe, probed, procs, clock,
                   accepted, solo, alone, imageOverlay>>

GenerateOfflineSegmentation == GenerateOffline("seg")
GenerateOfflineDetection == GenerateOffline("det")

NextSynthetic ==
    \/ GenerateOfflineSegmentation
    \/ GenerateOfflineDetection

SpecSynthetic == InitSynthetic /\ [][NextSynthetic]_vars

\* ------------------------------------------------------------- properties

\* Number of processes in the bag that satisfy P.
CountIn(bag, P(_)) ==
    BagCardinality([p \in {q \in BagToSet(bag) : P(q)} |-> bag[p]])
CountWhere(P(_)) == CountIn(procs, P)

\* The asynchronous function has not returned yet (afterwards only the
\* release timer of its finally block is pending).
InFlight(p) == p.pc \notin {"release", "up_release"}
StandaloneInFlight(p) == p.kind \in {"seg", "det"} /\ InFlight(p)
AtRemote(p) ==
    p.pc \in {"up_fetch", "up_json", "fetch", "json", "seg_fetch", "seg_json",
              "det_fetch", "det_json"}

BusyToast == "Another process is currently running"
EmptyResults == [segmentation |-> Null, detection |-> Null, statistics |-> Null]

\* C1: in every reachable state at most one accepted pipeline operation
\* (uploadImage, runSegmentation, detectArtifacts, runAllProcessing) is in
\* flight.
C1_AtMostOneInFlight == CountWhere(InFlight) <= 1

\* C2: while runningAllProcess is true no independent runSegmentation or
\* detectArtifacts is started.
C2_RunAllBlocksStages ==
    [][runningAllProcess =>
          CountIn(procs', StandaloneInFlight) <= CountWhere(StandaloneInFlight)]_vars

\* The state while a runSegmentation accepted in an idle state is the only
\* operation accepted since.
C3_SoloState ==
    solo => /\ StageBusy
            /\ currentImage # Null
            /\ NumProcs = 1
            /\ \A p \in Running :
                  /\ p.kind = "seg"
                  /\ p.writes = IF InFlight(p) THEN 0 ELSE 1

\* C3: after a runSegmentation accepted in an idle state, and as long as no
\* other operation has been accepted, the busy check holds, so a further
\* runSegmentation is rejected with the busy warning and starts nothing, and
\* the accepted one stores its result exactly once before it returns.
C3_SecondSegmentationRejected ==
    /\ []C3_SoloState
    /\ [][(solo /\ RunSegmentation) =>
             (toast' = BusyToast /\ UNCHANGED <<procs, processingResults>>)]_vars

\* C3 witness: the second runSegmentation has just been rejected while the
\* first is still in flight.
C3_Witness ==
    solo /\ toast = BusyToast /\ \E p \in Running : p.kind = "seg" /\ InFlight(p)

\* C4: a stage waiting for a remote endpoint was dispatched while isOnline
\* was true: nothing dispatched in Offline mode issues a remote request.
C4_OfflineNeverCallsRemote == \A p \in Running : AtRemote(p) => p.online

\* C4 witness: a step of runAllProcessing dispatched in Offline mode runs its
\* synthetic implementation.
C4_Witness ==
    \E p \in Running : p.kind = "all" /\ ~p.online /\ p.pc = "det_delay"

\* C5: the step that handles a failed remote attempt leaves isOnline false,
\* and an operation whose remote attempt has failed has stored a result by
\* the time it returns.
C5_RemoteFailureFallsBack ==
    [][\A p \in Running, q \in BagToSet(procs') :
          (procs' = Move(p, q) /\ q.failed) =>
             /\ ~p.failed => ~isOnline'
             /\ ~InFlight(q) => q.writes >= 1]_vars

\* C6: a runAllProcessing whose remote step failed is not reported as failed
\* and returns with segmentation, detection and statistics stored.
C6_RunAllRecovers ==
    /\ toast # "Processing failed"
    /\ \A p \in Running :
          (p.kind = "all" /\ p.failed /\ ~InFlight(p)) => p.writes = 3

\* An uploadImage returns in this step.
UploadCompletes ==
    /\ \E p \in Running : p.kind = "upload" /\ InFlight(p)
    /\ \E q \in BagToSet(procs') : q.kind = "upload" /\ ~InFlight(q)

\* C7: when an uploadImage completes, the results of the previous image are
\* absent.
C7_UploadClearsResults == [][UploadCompletes => processingResults' = EmptyResults]_vars

\* C8: a present statistics object carries the values of the results that
\* are in processingResults now.
C8_StatisticsCurrent ==
    LET r == processingResults IN
    r.statistics # Null =>
       /\ r.statistics.ruins_coverage = OrZero(r.segmentation, "ruins_percentage")
       /\ r.statistics.vegetation_coverage =
             OrZero(r.segmentation, "vegetation_percentage")
       /\ r.statistics.water_coverage = OrZero(r.segmentation, "water_percentage")
       /\ r.statistics.artifact_count = OrZero(r.detection, "total_detected")

\* C9: once the stages have completed and left both a segmentation and a
\* detection result, the combined statistics are present.
C9_StatisticsFollowResults ==
    (/\ procs = EmptyBag
     /\ processingResults.segmentation # Null
     /\ processingResults.detection # Null) => processingResults.statistics # Null

\* A call of generateCombinedStatistics that follows an earlier one.
RepeatedCall ==
    /\ processingResults.statistics # Null
    /\ CallGenerateCombinedStatistics

\* C10 as stated: a second call with unchanged inputs stores an object equal
\* to the first in every field, timestamp included.
C10_Idempotent ==
    [][RepeatedCall =>
          processingResults'.statistics = processingResults.statistics]_vars

\* What a runAllProcessing that runs undisturbed in Offline mode achieves: it
\* never takes its catch block, and once it has returned all three results
\* are present, with a consistent artifact count between 3 and 14.
RunAllIntact ==
    \A p \in Running :
       p.kind = "all" =>
          /\ ~p.failed
          /\ p.pc = "release" =>
                LET r == processingResults IN
                /\ r.segmentation # Null
                /\ r.detection # Null
                /\ r.statistics # Null
                /\ r.detection.total_detected = Len(r.detection.artifacts)
                /\ r.detection.total_detected \in 3..14
                /\ r.statistics.artifact_count = r.detection.total_detected

\* C11 as stated: a runAllProcessing started in Offline mode, with nothing
\* else invoked during the run, completes with segmentation, detection and
\* statistics present and a consistent count of 3 to 14 artifacts.
C11_OfflineRunAllCompletes == alone # "no" => RunAllIntact

OfflineNotice == "Running in offline mode. Basic features available."

\* C12: checkBackendStatus always ends in one of two ways.  After a network
\* error, a non-success status or an unreadable body it ends with isOnline
\* false and the offline status displayed and notified; it ends with isOnline
\* true only when the response was successful and its body was read.
C12_ProbeEndsHandled ==
    /\ [](probe = "done" <=> probed # "pending")
    /\ [][probed' # probed =>
             /\ probed = "pending"
             /\ probed' = "failed" =>
                   /\ ~isOnline'
                   /\ statusUI' = "Offline Mode"
                   /\ toast' = OfflineNotice
             /\ probed' = "ok" =>
                   /\ probe = "json"
                   /\ isOnline'
                   /\ statusUI' = "Online Mode"]_vars

\* C12 witness: the probe has just ended in its catch block.
C12_Witness ==
    /\ probed = "failed"
    /\ toast = OfflineNotice
    /\ ~isOnline
    /\ statusUI = "Offline Mode"

\* C13: isOnline changes from false to true only in the step in which the
\* start-up probe reads its successful response, and never once the probe
\* has ended.
C13_NoUpgradeAfterProbe ==
    /\ [][(~isOnline /\ isOnline') => (probe = "json" /\ probe' = "done")]_vars
    /\ [][(probe = "done" /\ isOnline') => isOnline]_vars

\* C13 witness: the probe found the backend, a failed remote attempt has
\* downgraded the mode since, and an operation has been dispatched offline.
C13_Witness ==
    /\ probed = "ok"
    /\ ~isOnline
    /\ \E p \in Running : ~p.online /\ ~p.failed

\* The warnings of the guards at the top of the four operations.
Warnings ==
    {"Please select an image file first", "Upload already in progress",
     "Please upload an image first", BusyToast}

\* An operation is invoked in a state in which its guards reject it.
RejectedInvocation ==
    \/ UploadImage /\ (selectedFile = 0 \/ isUploading)
    \/ (RunSegmentation \/ DetectArtifacts)
          /\ (currentImage = Null \/ (isProcessing /\ ~runningAllProcess))
    \/ RunAllProcessing /\ (currentImage = Null \/ isProcessing)

\* C14: a rejected invocation shows a warning, starts no request and leaves
\* the image, the results, the mode and the three busy flags as they were.
C14_RejectionChangesNothing ==
    [][RejectedInvocation =>
          /\ toast' \in Warnings
          /\ UNCHANGED <<currentImage, processingResults, isOnline, isProcessing,
                         isUploading, runningAllProcess, procs>>]_vars

\* C14 witness: runAllProcessing has just been rejected as busy while a
\* standalone stage waits for its remote response.
C14_Witness ==
    /\ toast = BusyToast
    /\ ~runningAllProcess
    /\ isProcessing
    /\ \E p \in Running : p.kind \in {"seg", "det"} /\ AtRemote(p)

SegmentationStep(p) == p.pc \in {"seg_fetch", "seg_json", "seg_delay"}
DetectionStep(p) == p.pc \in {"det_fetch", "det_json", "det_delay"}

\* C15: a runAllProcessing is at one step at a time and takes them in order:
\* during its segmentation step it has stored nothing, its detection step
\* runs only after it has stored the segmentation result, the statistics are
\* generated only after it has stored the detection result, and it returns
\* with all three stored unless a step failed.
C15_RunAllStepsInOrder ==
    \A p \in Running :
       p.kind = "all" =>
          /\ SegmentationStep(p) => p.writes = 0
          /\ (p.pc = "wait1" \/ DetectionStep(p)) => p.writes = 1
          /\ p.pc = "wait2" => p.writes = 2
          /\ p.pc = "wait3" => p.writes = 3
          /\ p.pc = "release" => (p.writes = 3 \/ (p.failed /\ p.writes <= 1))
          /\ p.pc \in {"seg_fetch", "seg_json", "seg_delay", "wait1", "det_fetch",
                       "det_json", "det_delay", "wait2", "wait3", "release"}

\* C15 witness: a run is in its detection step on the backend after its
\* segmentation step has stored a result.
C15_Witness ==
    \E p \in Running :
       /\ p.kind = "all"
       /\ p.pc = "det_json"
       /\ p.writes = 1
       /\ processingResults.segmentation # Null

\* C16: the step in which a step of runAllProcessing fails takes the run
\* straight to its end and changes no result; a failed run stays at its end,
\* so it starts no later stage and generates no statistics.
C16_FailedRunAllAborts ==
    /\ [](\A p \in Running : (p.kind = "all" /\ p.failed) => p.pc = "release")
    /\ [][\A p \in Running, q \in BagToSet(procs') :
             (p.kind = "all" /\ ~p.failed /\ q.failed /\ procs' = Move(p, q)) =>
                /\ q.pc = "release"
                /\ q.writes = p.writes
                /\ UNCHANGED processingResults]_vars

\* C16 witness: a run whose detection step failed has ended; the
\* segmentation result it stored is still there, detection and statistics
\* are absent.
C16_Witness ==
    /\ \E p \in Running : p.kind = "all" /\ p.failed /\ p.writes = 1
    /\ processingResults.segmentation # Null
    /\ processingResults.detection = Null
    /\ processingResults.statistics = Null

Busy == isProcessing \/ isUploading \/ runningAllProcess

\* C17: whenever a busy flag is set, a state follows in which isProcessing,
\* isUploading and runningAllProcess are all false.
C17_FlagsReleased == Busy ~> ~Busy

\* C18: clearResults leaves segmentation, detection and statistics absent
\* and does not touch the mode, the image, the selected file or the three
\* busy flags.
C18_ClearResultsFrame ==
    [][toast' = "All results cleared" =>
          /\ processingResults' = EmptyResults
          /\ UNCHANGED <<isOnline, currentImage, selectedFile, isProcessing,
                         isUploading, runningAllProcess>>]_vars

\* C18 witness: the results were cleared in Online mode during a
\* runAllProcessing that had stored all three of them.
C18_Witness ==
    /\ toast = "All results cleared"
    /\ processingResults = EmptyResults
    /\ isOnline
    /\ runningAllProcess
    /\ \E p \in Running : p.kind = "all" /\ p.writes = 3

SegmentationFields ==
    {"ruins_percentage", "vegetation_percentage", "water_percentage",
     "pixels_analyzed", "success"}
DetectionFields == {"artifacts", "total_detected", "success"}

\* The slot is absent or holds a result with all its fields and success true.
CompleteOrAbsent(result, fields) ==
    result = Null \/ (fields \subseteq DOMAIN result /\ result.success = TRUE)

\* C19: processingResults.segmentation and processingResults.detection are
\* each absent or a complete result whose success flag is true.
C19_ResultsCompleteOrAbsent ==
    /\ CompleteOrAbsent(processingResults.segmentation, SegmentationFields)
    /\ CompleteOrAbsent(processingResults.detection, DetectionFields)

\* C19 witness: the remote detection step of a runAllProcessing failed
\* after its remote segmentation had been stored: the segmentation slot
\* holds the remote result, the detection slot is absent.
C19_Witness ==
    /\ \E p \in Running : p.kind = "all" /\ p.failed /\ p.writes = 1
    /\ processingResults.segmentation = RemoteSegmentationBody
    /\ processingResults.detection = Null

\* The bounds of a synthetic segmentation result, in hundredths of a percent.
SegmentationInBounds(r) ==
    /\ r.ruins_percentage \in Percent(20)..Percent(60)
    /\ r.vegetation_percentage \in Percent(10)..Percent(40)
    /\ r.water_percentage \in Percent(1)..Percent(6)

\* The bounds of a synthetic detection result (confidence in thousandths).
DetectionInBounds(r) ==
    /\ Len(r.artifacts) \in 3..14
    /\ r.total_detected = Len(r.artifacts)
    /\ \A i \in 1..Len(r.artifacts) :
          /\ r.artifacts[i].id = i
          /\ r.artifacts[i].type \in {artifactTypes[k] : k \in 1..8}
          /\ r.artifacts[i].confidence \in 700..1000

\* C20: every result the offline generators store respects the bounds:
\* ruins 20-60 %, vegetation 10-40 %, water 1-6 %; 3 to 14 artifacts with
\* ids 1..n in order, a type among the 8 categories, confidence 0.7-1.0 and
\* total_detected equal to n.
C20_SyntheticInBounds ==
    LET r == processingResults IN
    /\ (r.segmentation # Null /\ r.segmentation.synthetic) =>
          SegmentationInBounds(r.segmentation)
    /\ (r.detection # Null /\ r.detection.synthetic) =>
          DetectionInBounds(r.detection)

\* C20 witness: the generators have stored a segmentation result above 59 %
\* ruins and a detection result of 14 artifacts, one of them with the
\* confidence rounded up to 1.0.
C20_Witness ==
    LET r == processingResults IN
    /\ r.segmentation # Null
    /\ r.segmentation.synthetic
    /\ r.segmentation.ruins_percentage > Percent(59)
    /\ r.detection # Null
    /\ r.detection.synthetic
    /\ Len(r.detection.artifacts) = 14
    /\ \E i \in 1..14 : r.detection.artifacts[i].confidence = 1000

\* A direct call of generateCombinedStatistics with at least one result.
CombineWithResult ==
    /\ CallGenerateCombinedStatistics
    /\ \/ processingResults.segmentation # Null
       \/ processingResults.detection # Null

\* C21: called with at least one of segmentation and detection present,
\* generateCombinedStatistics stores a statistics object whose coverage
\* fields are the segmentation values (0 without segmentation) and whose
\* artifact_count is detection.total_detected (0 without detection).
C21_CombineSubstitutesZero ==
    [][CombineWithResult =>
          LET seg == processingResults.segmentation
              det == processingResults.detection
              st == processingResults'.statistics
          IN  /\ st # Null
              /\ st.ruins_coverage =
                    IF seg # Null THEN seg.ruins_percentage ELSE 0
              /\ st.vegetation_coverage =
                    IF seg # Null THEN seg.vegetation_percentage ELSE 0
              /\ st.water_coverage =
                    IF seg # Null THEN seg.water_percentage ELSE 0
              /\ st.artifact_count =
                    IF det # Null THEN det.total_detected ELSE 0]_vars

\* C21 witness: statistics generated from a detection result alone.
C21_Witness ==
    LET r == processingResults IN
    /\ accepted >= 1
    /\ r.segmentation = Null
    /\ r.detection # Null
    /\ r.statistics # Null
    /\ r.statistics.ruins_coverage = 0
    /\ r.statistics.artifact_count = r.detection.total_detected
    /\ r.statistics.artifact_count > 0

\* C22: a standalone runSegmentation or detectArtifacts whose remote attempt
\* failed has stored a result of its own by the time it returns, also when
\* isOnline was already false when the failure was handled.
C22_FailedStageStoresSynthetic ==
    \A p \in Running :
       (p.kind \in {"seg", "det"} /\ p.failed /\ ~InFlight(p)) => p.writes = 1

\* C23: isProcessing is false only if no accepted uploadImage,
\* runSegmentation, detectArtifacts or runAllProcessing is still in flight.
C23_FlagHeldWhileInFlight == ~isProcessing => CountWhere(InFlight) = 0

\* C24: runningAllProcess true implies isProcessing true.
C24_RunAllLockImpliesBusy == runningAllProcess => isProcessing

IsUpload(p) == p.kind = "upload"

\* C25: at most one uploadImage exists at a time and isUploading is set
\* exactly while it does (its release timer included); an uploadImage invoked
\* while isUploading is true is rejected and starts nothing; isUploading is
\* cleared only by the release timer of the one upload there is.
C25_SingleUpload ==
    /\ [](CountWhere(IsUpload) <= 1 /\ (isUploading <=> CountWhere(IsUpload) = 1))
    /\ [][(UploadImage /\ isUploading) =>
             /\ toast' = "Upload already in progress"
             /\ UNCHANGED <<procs, isUploading, currentImage>>]_vars
    /\ [][(isUploading /\ ~isUploading') =>
             \E p \in Running :
                /\ IsUpload(p)
                /\ Due(p, "up_release")
                /\ procs' = Retire(p)]_vars

\* C25 witness: an uploadImage has just been rejected during the 500 ms
\* between the return of the previous upload and its release timer.
C25_Witness ==
    /\ toast = "Upload already in progress"
    /\ isUploading
    /\ \E p \in Running : IsUpload(p) /\ p.pc = "up_release" /\ p.writes = 1

\* The step in which process p stores a segmentation or detection result.
StoresStageResult(p, q) ==
    /\ procs' = Move(p, q)
    /\ p.kind # "upload"
    /\ p.pc # "wait2"
    /\ q.writes = p.writes + 1

\* C26: a stage stores its result while currentImage is still the image the
\* stage was started for.
C26_ResultForCurrentImage ==
    [][\A p \in Running, q \in BagToSet(procs') :
          StoresStageResult(p, q) => p.img = currentImage]_vars

\* C27: the slots stay absent after clearResults until an operation accepted
\* afterwards writes them.  The step that directly follows clearResults is
\* taken by an operation that was already in flight, or accepts a new one
\* (which stores nothing yet): it leaves the three slots absent.
C27_ClearedStaysCleared ==
    [][toast = "All results cleared" => processingResults' = EmptyResults]_vars

\* C28: a stage that waits for a remote endpoint was dispatched for an image
\* that had been uploaded to the server.
C28_RemoteOnlyForServerImage ==
    \A p \in Running :
       (p.kind # "upload" /\ AtRemote(p)) => p.img.server_data

\* C29: if segmentation, detection or statistics is present then
\* currentImage is present, and currentImage, once set, is never reset to
\* absent.
C29_ResultsNeedImage ==
    /\ [](processingResults # EmptyResults => currentImage # Null)
    /\ [][currentImage # Null => currentImage' # Null]_vars

\* C29 witness: the results have been cleared after a runAllProcessing
\* stored all three, and a stage has stored a new one since: the image is
\* still there.
C29_Witness ==
    /\ currentImage # Null
    /\ processingResults.segmentation # Null
    /\ processingResults.statistics = Null
    /\ \E p \in Running : p.kind = "all" /\ p.writes = 3

\* The text updateBackendStatusUI displays for a value of isOnline.
ModeText(online) == IF online THEN "Online Mode" ELSE "Offline Mode"

\* C30: the displayed mode is either not set yet, which only happens while
\* the start-up probe is pending, or the one of isOnline; every step that
\* changes isOnline displays the new value.
C30_DisplayedModeAgrees ==
    /\ [](statusUI = "unset" \/ statusUI = ModeText(isOnline))
    /\ [](statusUI = "unset" => probed = "pending")
    /\ [][isOnline' # isOnline => statusUI' = ModeText(isOnline')]_vars

\* C30 witness: the probe found the backend and the catch block of an
\* operation has downgraded the mode since: the display says Offline.
C30_Witness ==
    /\ probed = "ok"
    /\ ~isOnline
    /\ statusUI = "Offline Mode"
    /\ \E p \in Running : p.failed

====
